---------------------------- MODULE Spec2Model ----------------------------
(***************************************************************************)
(* Model of nehaa13/central_repository:                                    *)
(*   - src/scxml-ui/src/App.js      the deployment form (a React session)  *)
(*   - src/generate_workflow.sh     the workflow generator, and the        *)
(*                                  validate / extract steps of the       *)
(*                                  workflow it writes                     *)
(*                                                                         *)
(* LOB keys and free text are opaque strings.  Target-application          *)
(* identifiers are sequences of characters, because the workflow's         *)
(* validation step (jq `contains`) looks inside them.                      *)
(***************************************************************************)
EXTENDS Naturals, Sequences, FiniteSets, TLC

VARIABLES
    source,              \* the hosted manifest file / URL: [kind, docs]
    \* ---- App.js component state
    load,                \* position of the manifest fetch: "fetching" | "done" | "failed"
    jsonData,            \* useState(null): [set |-> truthy, raw |-> is text, doc |-> properties]
    lobList,             \* useState([])
    targetApps,          \* useState([])
    lob,                 \* useState("")
    targetApp,           \* useState("")
    projectName, releaseType, releaseDescription,
    loading,             \* useState(false)
    message,             \* useState("")
    calls,               \* triggerWorkflow invocations suspended at / after the await
    clicks,              \* submit clicks handled so far
    posts,               \* dispatch POSTs sent so far
    \* ---- generate_workflow.sh, one run
    genPc,               \* "off" | "check" | "validate" | "lobs" | "apps" | "summary" | "exited"
    genExit,             \* exit status, meaningful once genPc = "exited"
    lobOptions,          \* options written under inputs.lob_key
    appOptions,          \* options written under inputs.target_app
    LOB_COUNT, APP_COUNT,  \* the closing summary: the lines of LOB_COUNT, the app count
    \* ---- one run of the generated workflow's job
    wfPc,                \* "off" | "validate" | "extract" | "deploy" | "summary" | "failed" | "notified" | "done"
    errexit,             \* whether the runner starts the step's shell with -e
    LOB_KEY, TARGET_APP,   \* github.event.inputs.lob_key / target_app
    stepExit,            \* exit status of the validate step, once it has run
    valid,             \* steps.validate.outputs.valid
    lob_name,          \* steps.validate.outputs.lob_name
    reported,            \* whether the step wrote its summary (passed / failed)
    alternatives,        \* the apps listed under "Valid Target Applications"
    email_dl, git_repo, git_user, artifactory_user, artifactory_url

uiVars == <<load, jsonData, lobList, targetApps, lob, targetApp, projectName,
            releaseType, releaseDescription, loading, message, calls, clicks, posts>>

genVars == <<genPc, genExit, lobOptions, appOptions, LOB_COUNT, APP_COUNT>>

wfVars == <<wfPc, errexit, LOB_KEY, TARGET_APP, stepExit, valid, lob_name,
            reported, alternatives, email_dl, git_repo, git_user, artifactory_user,
            artifactory_url>>

vars == <<source, uiVars, genVars, wfVars>>

----------------------------------------------------------------------------
(* Bounds *)

MaxApps     == 2    \* longest target-app list drawn for a LOB
MaxClicks   == 2    \* submit clicks followed in one session
MaxInFlight == 2    \* triggerWorkflow invocations followed at once
MaxDocs     == 2    \* JSON values drawn for a file that holds a stream of them

----------------------------------------------------------------------------
(* Strings and JSON documents *)

EmptyStr == << >>

\* "x", "X", "xy": a name, the same name in another case, a name containing it
AppIds == { <<"x">>, <<"X">>, <<"x", "y">> }

LobKeys == { "CL1", "CL2" }

Texts == { "", "t" }

Range(s) == { s[i] : i \in DOMAIN s }

Restrict(f, S) == [ x \in S |-> f[x] ]

\* A JSON object is a function from the keys it has; a key it lacks is not in
\* its domain (JavaScript: undefined, jq: null).
Has(obj, key) == key \in DOMAIN obj

EmptyObj == << >>

SeqsUpTo(S, n) == UNION { [1..k -> S] : k \in 0..n }


TargetListsKey == "SCXML_TARGET_APP_LISTS"
AppListsKey    == "SCXML_APP_LISTS"
EmailKey       == "SCXML_EMAIL_CONFIG"
GitKey         == "SCXML_GIT_CONFIG"
JfrogKey       == "SCXML_JFROG_CONFIG"

\* All JSON objects with keys among Keys and values among Vals
Objects(Keys, Vals) == UNION { [S -> Vals] : S \in SUBSET Keys }

\* A manifest with top-level key k present exactly when its part is not "absent"
Absent == [absent |-> TRUE]

MkManifest(parts) ==
    Restrict(parts, { k \in DOMAIN parts : parts[k] # Absent })

FullAppLists == [ k \in LobKeys |-> << k \o " name" >> ]

\* The lists a generator manifest gives a LOB
SessionLists == { << >>, << <<"x">> >>, << <<"x">>, <<"x", "y">> >>, << <<"X">> >> }

\* Manifests served to the form, which reads SCXML_TARGET_APP_LISTS only: none,
\* a LOB without apps, two LOBs with their own apps, two LOBs sharing an app
UiTargetLists ==
    { Absent,
      [CL1 |-> << >>],
      [CL1 |-> << <<"x">>, <<"x", "y">> >>, CL2 |-> << <<"X">> >>],
      [CL1 |-> << <<"x">> >>, CL2 |-> << <<"x">> >>] }

UiManifests ==
    { MkManifest([SCXML_APP_LISTS |-> FullAppLists, SCXML_TARGET_APP_LISTS |-> tl])
        : tl \in UiTargetLists }

\* Manifests read by the generator: either mapping may be missing or lack a LOB
GenManifests ==
    { MkManifest([SCXML_APP_LISTS |-> al, SCXML_TARGET_APP_LISTS |-> tl])
        : al \in Objects(LobKeys, { <<"name">> }) \cup {Absent},
          tl \in Objects(LobKeys, SessionLists) \cup {Absent} }

SubObjects(full) == { Restrict(full, S) : S \in SUBSET DOMAIN full }

\* Manifests read by a workflow run: CL1 may be configured, CL2 never is
WorkflowManifests ==
    { MkManifest([SCXML_APP_LISTS        |-> al,
                  SCXML_TARGET_APP_LISTS |-> tl,
                  SCXML_EMAIL_CONFIG     |-> em,
                  SCXML_GIT_CONFIG       |-> git,
                  SCXML_JFROG_CONFIG     |-> jf])
        : al  \in Objects({"CL1"}, { << >>, <<"Consumer Lending">> }) \cup {Absent},
          tl  \in Objects({"CL1"}, SeqsUpTo(AppIds, MaxApps)) \cup {Absent},
          em  \in SubObjects([CL1_teamEmailDL |-> <<"dl@corp">>]) \cup {Absent},
          git \in SubObjects([GIT_Repo |-> <<"repo">>, GIT_userName |-> <<"gituser">>])
                    \cup {Absent},
          jf  \in SubObjects([SCXML_artifactoryUserID |-> <<"afuser">>,
                              SCXML_searchArtifactoryBaseURL |-> <<"afurl">>])
                    \cup {Absent} }

\* The file as jq reads it: a stream of JSON values.  kind "json": every value
\* parses (an empty or whitespace-only file is the empty stream, a manifest is
\* a stream of one object); "empty": a file of no bytes, the empty stream too;
\* "garbage": some text of it does not parse; "missing": there is no file.
JsonStream(ds) == [kind |-> "json", docs |-> ds]
JsonDoc(m) == JsonStream(<< m >>)
EmptyFile == [kind |-> "empty", docs |-> << >>]
MissingDoc == [kind |-> "missing", docs |-> << >>]
GarbageDoc == [kind |-> "garbage", docs |-> << >>]

\* the file is one JSON document
SingleDoc == source.kind = "json" /\ Len(source.docs) = 1

\* the manifest of a file that is one JSON document
Doc == source.docs[1]

----------------------------------------------------------------------------
(* App.js *)

SuccessText == "Workflow triggered successfully!"
ErrorText   == "Error: Workflow trigger failed."

NoData == [set |-> FALSE, raw |-> FALSE, doc |-> EmptyObj]

\* res.data of a 200 answer (App.js:28-29).  axios parses the body as JSON
\* and, when it is not one JSON document, hands over the body text instead: a
\* string, which has no SCXML_TARGET_APP_LISTS property and is truthy unless
\* the file has no bytes.
ResponseData ==
    IF SingleDoc
    THEN [set |-> TRUE, raw |-> FALSE, doc |-> Doc]
    ELSE [set |-> source.kind # "empty", raw |-> TRUE, doc |-> EmptyObj]

\* the form is rendered only once jsonData is set (App.js:94)
FormShown == jsonData.set

\* no continuation of triggerWorkflow is waiting to run: a settled promise's
\* continuation runs as a microtask, before any further user event
NoResume == \A i \in DOMAIN calls : calls[i].st = "awaiting"

UiInit ==
    /\ load = "fetching"
    /\ jsonData = NoData
    /\ lobList = {}
    /\ targetApps = << >>
    /\ lob = ""
    /\ targetApp = EmptyStr
    /\ projectName = ""
    /\ releaseType = ""
    /\ releaseDescription = ""
    /\ loading = FALSE
    /\ message = ""
    /\ calls = << >>
    /\ clicks = 0
    /\ posts = 0

\* useEffect(..., [lob, jsonData]) (App.js:39-45), run with the values of the
\* render that follows a change of lob or jsonData; yields <<targetApps, targetApp>>
LobEffect(data, newLob, apps, app) ==
    IF ~data.set \/ newLob = ""
    THEN <<apps, app>>
    ELSE <<data.doc[TargetListsKey][newLob], EmptyStr>>

\* .then of the manifest GET (App.js:28-31), run on a 200 answer whatever the
\* body holds.  Object.keys(undefined) throws after setJsonData when res.data
\* has no SCXML_TARGET_APP_LISTS; the .catch logs it and lobList keeps its value.
LoadSuccess ==
    /\ load = "fetching"
    /\ source.kind # "missing"
    /\ load' = "done"
    /\ jsonData' = ResponseData
    /\ lobList' = IF Has(ResponseData.doc, TargetListsKey)
                  THEN DOMAIN ResponseData.doc[TargetListsKey]
                  ELSE lobList
    /\ LET e == LobEffect(jsonData', lob, targetApps, targetApp)
       IN  targetApps' = e[1] /\ targetApp' = e[2]
    /\ UNCHANGED <<genVars, wfVars, source, lob, projectName, releaseType, releaseDescription,
                   loading, message, calls, clicks, posts>>

\* .catch of the manifest GET (App.js:32): the request fails (no such file,
\* or the network), nothing is set
LoadFailure ==
    /\ load = "fetching"
    /\ load' = "failed"
    /\ UNCHANGED <<genVars, wfVars, source, jsonData, lobList, targetApps, lob, targetApp,
                   projectName, releaseType, releaseDescription, loading,
                   message, calls, clicks, posts>>

\* onChange of the LOB select (App.js:101-106) and the effect it triggers
setLob(k) ==
    /\ FormShown /\ NoResume
    /\ k \in lobList \cup {""}
    /\ k # lob
    /\ lob' = k
    /\ LET e == LobEffect(jsonData, k, targetApps, targetApp)
       IN  targetApps' = e[1] /\ targetApp' = e[2]
    /\ UNCHANGED <<genVars, wfVars, source, load, jsonData, lobList, projectName, releaseType,
                   releaseDescription, loading, message, calls, clicks, posts>>

\* onChange of the Target App select (App.js:111-120), disabled while !lob
setTargetApp(a) ==
    /\ FormShown /\ NoResume
    /\ lob # ""
    /\ a \in Range(targetApps) \cup {EmptyStr}
    /\ a # targetApp
    /\ targetApp' = a
    /\ UNCHANGED <<genVars, wfVars, source, load, jsonData, lobList, targetApps, lob, projectName,
                   releaseType, releaseDescription, loading, message, calls,
                   clicks, posts>>

setProjectName(t) ==
    /\ FormShown /\ NoResume
    /\ t # projectName
    /\ projectName' = t
    /\ UNCHANGED <<genVars, wfVars, source, load, jsonData, lobList, targetApps, lob, targetApp,
                   releaseType, releaseDescription, loading, message, calls,
                   clicks, posts>>

setReleaseType(t) ==
    /\ FormShown /\ NoResume
    /\ t # releaseType
    /\ releaseType' = t
    /\ UNCHANGED <<genVars, wfVars, source, load, jsonData, lobList, targetApps, lob, targetApp,
                   projectName, releaseDescription, loading, message, calls,
                   clicks, posts>>

setReleaseDescription(t) ==
    /\ FormShown /\ NoResume
    /\ t # releaseDescription
    /\ releaseDescription' = t
    /\ UNCHANGED <<genVars, wfVars, source, load, jsonData, lobList, targetApps, lob, targetApp,
                   projectName, releaseType, loading, message, calls, clicks, posts>>

\* the body of the dispatch POST (App.js:58-67)
DispatchRequest ==
    [ ref    |-> "main",
      inputs |-> [ lob                 |-> lob,
                   target_app          |-> targetApp,
                   project_name        |-> projectName,
                   release_type        |-> releaseType,
                   release_description |-> releaseDescription ] ]

\* <button onClick={triggerWorkflow} disabled={loading}> (App.js:148)
ButtonDisabledAlwaysOff == FALSE
ButtonDisabled == loading

\* a click on the button: triggerWorkflow up to its await (App.js:51-74).
\* The two bounds only cap the counters and the list of suspended invocations.
triggerWorkflow ==
    /\ FormShown /\ NoResume
    /\ ~ButtonDisabled
    /\ clicks < MaxClicks
    /\ Len(calls) < MaxInFlight
    /\ loading' = TRUE
    /\ message' = ""
    /\ calls' = Append(calls, [req |-> DispatchRequest, st |-> "awaiting"])
    /\ clicks' = clicks + 1
    /\ posts' = posts + 1
    /\ UNCHANGED <<genVars, wfVars, source, load, jsonData, lobList, targetApps, lob, targetApp,
                   projectName, releaseType, releaseDescription>>

\* the external CI answers the POST: axios resolves on 2xx, rejects otherwise
PostSettles(i, outcome) ==
    /\ i \in DOMAIN calls
    /\ NoResume
    /\ calls[i].st = "awaiting"
    /\ calls' = [calls EXCEPT ![i].st = outcome]
    /\ UNCHANGED <<genVars, wfVars, source, load, jsonData, lobList, targetApps, lob, targetApp,
                   projectName, releaseType, releaseDescription, loading,
                   message, clicks, posts>>

RemoveAt(s, i) == [ j \in 1..(Len(s) - 1) |-> IF j < i THEN s[j] ELSE s[j + 1] ]

\* the message set after the await (App.js:76 / 77-80)
MessageAfterAlwaysSuccess(outcome) == SuccessText
MessageAfter(outcome) == IF outcome = "resolved" THEN SuccessText ELSE ErrorText

\* triggerWorkflow after its await (App.js:76-82)
triggerWorkflowResume(i) ==
    /\ i \in DOMAIN calls
    /\ calls[i].st # "awaiting"
    /\ message' = MessageAfter(calls[i].st)
    /\ loading' = FALSE
    /\ calls' = RemoveAt(calls, i)
    /\ UNCHANGED <<genVars, wfVars, source, load, jsonData, lobList, targetApps, lob, targetApp,
                   projectName, releaseType, releaseDescription, clicks, posts>>

GenOff ==
    /\ genPc = "off"
    /\ genExit = 0
    /\ lobOptions = << >>
    /\ appOptions = << >>
    /\ LOB_COUNT = << >>
    /\ APP_COUNT = 0

WfOff ==
    /\ wfPc = "off"
    /\ errexit = TRUE
    /\ LOB_KEY = ""
    /\ TARGET_APP = EmptyStr
    /\ stepExit = 0
    /\ valid = ""
    /\ lob_name = ""
    /\ reported = FALSE
    /\ alternatives = << >>
    /\ email_dl = ""
    /\ git_repo = ""
    /\ git_user = ""
    /\ artifactory_user = ""
    /\ artifactory_url = ""

\* the files served to a session: a manifest, text that is not JSON, no bytes
UiManifestFiles == { JsonDoc(m) : m \in UiManifests } \cup { GarbageDoc, EmptyFile }

Init ==
    /\ source \in UiManifestFiles
    /\ UiInit
    /\ GenOff
    /\ WfOff

Next ==
    \/ LoadSuccess
    \/ LoadFailure
    \/ \E k \in LobKeys \cup {""} : setLob(k)
    \/ \E a \in AppIds \cup {EmptyStr} : setTargetApp(a)
    \/ \E t \in Texts : setProjectName(t)
    \/ \E t \in Texts : setReleaseType(t)
    \/ \E t \in Texts : setReleaseDescription(t)
    \/ triggerWorkflow
    \/ \E i \in 1..MaxInFlight, o \in {"resolved", "rejected"} : PostSettles(i, o)
    \/ \E i \in 1..MaxInFlight : triggerWorkflowResume(i)

Spec == Init /\ [][Next]_vars

\* the continuation of a settled POST is a microtask: it always runs
FairSpec == Spec /\ \A i \in 1..MaxInFlight : WF_vars(triggerWorkflowResume(i))

----------------------------------------------------------------------------
(* jq, as far as the scripts use it *)

Null == [t |-> "null"]
Val(x) == [t |-> "val", v |-> x]

\* .key : null on null and on an object without the key
JqField(j, key) ==
    IF j = Null THEN Null
    ELSE IF Has(j.v, key) THEN Val(j.v[key]) ELSE Null

\* .[0] : null on null and on an empty array
JqFirst(j) ==
    IF j = Null THEN Null
    ELSE IF Len(j.v) >= 1 THEN Val(j.v[1]) ELSE Null

\* -r output of a string or of null
JqRaw(j) == IF j = Null THEN "null" ELSE j.v

\* -r output of  (j // "")
JqRawOrEmpty(j) == IF j = Null THEN "" ELSE j.v

\* a occurs in e as a run of consecutive characters (every string contains "")
IsSubstring(a, e) ==
    \E i \in 0..(Len(e) - Len(a)) : SubSeq(e, i + 1, i + Len(a)) = a

\* list | contains([a]) : some element of the array contains a; on strings
\* jq's containment is the substring relation
JqContains(list, a) == \E i \in DOMAIN list : IsSubstring(a, list[i])

\* keys : the keys of an object, sorted
KeyOrder == << "CL1", "CL2" >>
JqKeys(obj) == SelectSeq(KeyOrder, LAMBDA k : k \in DOMAIN obj)

\* sort -u over the target-app identifiers (byte order: "X" < "x" < "xy")
AppOrder == << <<"X">>, <<"x">>, <<"x", "y">> >>
SortUnique(S) == SelectSeq(AppOrder, LAMBDA a : a \in S)

\* .SCXML_TARGET_APP_LISTS | to_entries[] | .value[] : every app of every LOB
AllTargetApps(lists) == UNION { Range(lists[k]) : k \in DOMAIN lists }

RECURSIVE SumLen(_, _)
SumLen(lists, keys) ==
    IF keys = << >> THEN 0
    ELSE Len(lists[Head(keys)]) + SumLen(lists, Tail(keys))

\* jq runs its filter on every value of the stream in turn; a value on which
\* the filter fails prints nothing, and jq goes on with the next one.

\* jq -r '.SCXML_APP_LISTS | keys[]' : the lines printed
RECURSIVE KeysLines(_, _)
KeysLines(docs, key) ==
    IF docs = << >> THEN << >>
    ELSE (IF Has(Head(docs), key) THEN JqKeys(Head(docs)[key]) ELSE << >>)
             \o KeysLines(Tail(docs), key)

\* jq -r '.SCXML_APP_LISTS | keys | length' : the lines printed
RECURSIVE KeyCountLines(_)
KeyCountLines(docs) ==
    IF docs = << >> THEN << >>
    ELSE (IF Has(Head(docs), AppListsKey)
          THEN << Len(JqKeys(Head(docs)[AppListsKey])) >> ELSE << >>)
             \o KeyCountLines(Tail(docs))

\* jq -r '.SCXML_TARGET_APP_LISTS | to_entries[] | .value[]' : the apps printed
StreamTargetApps(docs) ==
    UNION { AllTargetApps(docs[i][TargetListsKey])
              : i \in { j \in DOMAIN docs : Has(docs[j], TargetListsKey) } }

\* ... | wc -l : the number of lines printed
RECURSIVE StreamAppLines(_)
StreamAppLines(docs) ==
    IF docs = << >> THEN 0
    ELSE (IF Has(Head(docs), TargetListsKey)
          THEN SumLen(Head(docs)[TargetListsKey], JqKeys(Head(docs)[TargetListsKey]))
          ELSE 0)
             + StreamAppLines(Tail(docs))

\* jq's exit status is that of the last value it processed: 5 when the filter
\* failed on it, 0 otherwise and on an empty stream
JqStatus(docs, key) ==
    IF docs # << >> /\ ~Has(docs[Len(docs)], key) THEN 5 ELSE 0

----------------------------------------------------------------------------
(* generate_workflow.sh, run under set -e *)

\* the values of a file that holds no or several JSON values
StreamDocs ==
    { EmptyObj,
      [SCXML_APP_LISTS |-> [CL1 |-> <<"name">>]],
      [SCXML_APP_LISTS |-> [CL2 |-> <<"name">>],
       SCXML_TARGET_APP_LISTS |-> [CL2 |-> << <<"x">> >>]],
      [SCXML_TARGET_APP_LISTS |-> [CL1 |-> << <<"x">>, <<"x", "y">> >>]] }

GenManifestFiles ==
    { JsonDoc(m) : m \in GenManifests }
        \cup { JsonStream(ds) : ds \in SeqsUpTo(StreamDocs, MaxDocs) }
        \cup { MissingDoc, GarbageDoc, EmptyFile }

GenStart ==
    /\ genPc = "check"
    /\ genExit = 0
    /\ lobOptions = << >>
    /\ appOptions = << >>
    /\ LOB_COUNT = << >>
    /\ APP_COUNT = 0

\* if [ ! -f "$CONFIG_FILE" ] ... exit 1 (generate_workflow.sh:16-20)
GenCheckExists ==
    /\ genPc = "check"
    /\ IF source.kind = "missing"
       THEN genPc' = "exited" /\ genExit' = 1
       ELSE genPc' = "validate" /\ genExit' = genExit
    /\ UNCHANGED <<source, uiVars, wfVars, lobOptions, appOptions, LOB_COUNT, APP_COUNT>>

\* if ! jq empty ... exit 1 (generate_workflow.sh:23-26): jq empty fails when
\* some text of the file does not parse, and succeeds on any stream of JSON
\* values, the empty one included
GenValidateJson ==
    /\ genPc = "validate"
    /\ IF source.kind = "garbage"
       THEN genPc' = "exited" /\ genExit' = 1
       ELSE genPc' = "lobs" /\ genExit' = genExit
    /\ UNCHANGED <<source, uiVars, wfVars, lobOptions, appOptions, LOB_COUNT, APP_COUNT>>

\* the mapping whose keys become the lob_key options (generate_workflow.sh:47)
LobOptionsKey == AppListsKey

\* jq '.SCXML_APP_LISTS | keys[]' | while read ... (generate_workflow.sh:47-49).
\* keys fails on null; the pipeline's status is the loop's, so the script goes on.
GenAddLobKeys ==
    /\ genPc = "lobs"
    /\ lobOptions' = KeysLines(source.docs, LobOptionsKey)
    /\ genPc' = "apps"
    /\ UNCHANGED <<source, uiVars, wfVars, genExit, appOptions, LOB_COUNT, APP_COUNT>>

\* jq '... | to_entries[] | .value[]' | sort -u | while read ...
\* (generate_workflow.sh:62-64); to_entries fails on null, the script goes on.
GenAddTargetApps ==
    /\ genPc = "apps"
    /\ appOptions' = SortUnique(StreamTargetApps(source.docs))
    /\ genPc' = "summary"
    /\ UNCHANGED <<source, uiVars, wfVars, genExit, lobOptions, LOB_COUNT, APP_COUNT>>

\* LOB_COUNT=$(jq '.SCXML_APP_LISTS | keys | length') : a plain assignment, so
\* under set -e a non-zero status of jq (5: keys failed on null) ends the script.
\* APP_COUNT=$(jq ... | wc -l) has wc's status.  (generate_workflow.sh:206-216)
GenSummary ==
    /\ genPc = "summary"
    /\ genPc' = "exited"
    /\ IF JqStatus(source.docs, AppListsKey) = 0
       THEN /\ LOB_COUNT' = KeyCountLines(source.docs)
            /\ APP_COUNT' = StreamAppLines(source.docs)
            /\ genExit' = 0
       ELSE /\ genExit' = JqStatus(source.docs, AppListsKey)
            /\ UNCHANGED <<LOB_COUNT, APP_COUNT>>
    /\ UNCHANGED <<source, uiVars, wfVars, lobOptions, appOptions>>

\* A run of the generator, and a form session loading the same manifest
InitGen ==
    /\ source \in GenManifestFiles
    /\ UiInit
    /\ GenStart
    /\ WfOff

NextGen ==
    \/ GenCheckExists
    \/ GenValidateJson
    \/ GenAddLobKeys
    \/ GenAddTargetApps
    \/ GenSummary
    \/ LoadSuccess
    \/ LoadFailure

SpecGen == InitGen /\ [][NextGen]_vars

----------------------------------------------------------------------------
(* The job of the generated workflow (generate_workflow.sh:72-198) *)

WfStart ==
    /\ wfPc = "validate"
    /\ stepExit = 0
    /\ valid = ""
    /\ lob_name = ""
    /\ reported = FALSE
    /\ alternatives = << >>
    /\ email_dl = ""
    /\ git_repo = ""
    /\ git_user = ""
    /\ artifactory_user = ""
    /\ artifactory_url = ""

Manifest == Val(Doc)

\* .SCXML_TARGET_APP_LISTS.${LOB_KEY}
TargetListOf(k) == JqField(JqField(Manifest, TargetListsKey), k)

\* IS_VALID=$(jq -r ".SCXML_TARGET_APP_LISTS.${LOB_KEY} | contains([...])")
\* (generate_workflow.sh:90): "error" when jq fails, which it does on null
\* (null and an array cannot have their containment checked)
IS_VALID(k, a) ==
    LET list == TargetListOf(k)
    IN  IF list = Null THEN "error"
        ELSE IF JqContains(list.v, a) THEN "true" ELSE "false"

\* LOB_NAME=$(jq -r ".SCXML_APP_LISTS.${LOB_KEY}[0]") (generate_workflow.sh:93)
LOB_NAME(k) == JqRaw(JqFirst(JqField(JqField(Manifest, AppListsKey), k)))

\* jq -r ".SCXML_TARGET_APP_LISTS.${LOB_KEY}[]" | while read app
\* (generate_workflow.sh:111-113): nothing is listed when jq fails on null
ListedAlternatives(k) ==
    LET list == TargetListOf(k)
    IN  IF list = Null THEN << >> ELSE list.v

\* the step "Validate LOB and Target App Combination" (generate_workflow.sh:80-115)
WfValidate ==
    /\ wfPc = "validate"
    /\ LET out == IS_VALID(LOB_KEY, TARGET_APP)
       IN  IF out = "error" /\ errexit
           THEN \* the assignment's status is jq's: the shell stops there
                /\ wfPc' = "failed"
                /\ stepExit' = 5
                /\ UNCHANGED <<valid, lob_name, reported, alternatives>>
           ELSE IF out = "true"
           THEN /\ wfPc' = "extract"
                /\ stepExit' = 0
                /\ valid' = "true"
                /\ lob_name' = LOB_NAME(LOB_KEY)
                /\ reported' = TRUE
                /\ UNCHANGED alternatives
           ELSE /\ wfPc' = "failed"
                /\ stepExit' = 1
                /\ reported' = TRUE
                /\ alternatives' = ListedAlternatives(LOB_KEY)
                /\ UNCHANGED <<valid, lob_name>>
    /\ UNCHANGED <<source, uiVars, genVars, errexit, LOB_KEY, TARGET_APP,
                   email_dl, git_repo, git_user, artifactory_user, artifactory_url>>

\* jq -r '.SECTION.field[0] // ""' (generate_workflow.sh:125-133)
FirstOrEmpty(section, field) ==
    JqRawOrEmpty(JqFirst(JqField(JqField(Manifest, section), field)))

\* the step "Extract Additional Configuration" (generate_workflow.sh:117-144),
\* run if steps.validate.outputs.valid == 'true'
WfExtract ==
    /\ wfPc = "extract"
    /\ valid = "true"
    /\ email_dl' = FirstOrEmpty(EmailKey, LOB_KEY \o "_teamEmailDL")
    /\ git_repo' = FirstOrEmpty(GitKey, "GIT_Repo")
    /\ git_user' = FirstOrEmpty(GitKey, "GIT_userName")
    /\ artifactory_user' = FirstOrEmpty(JfrogKey, "SCXML_artifactoryUserID")
    /\ artifactory_url' = FirstOrEmpty(JfrogKey, "SCXML_searchArtifactoryBaseURL")
    /\ wfPc' = "deploy"
    /\ UNCHANGED <<source, uiVars, genVars, errexit, LOB_KEY, TARGET_APP,
                   stepExit, valid, lob_name, reported, alternatives>>

\* the step "Deploy SCXML Application" (generate_workflow.sh:146-177): echoes only
WfDeploy ==
    /\ wfPc = "deploy"
    /\ valid = "true"
    /\ wfPc' = "summary"
    /\ UNCHANGED <<source, uiVars, genVars, errexit, LOB_KEY, TARGET_APP,
                   stepExit, valid, lob_name, reported, alternatives,
                   email_dl, git_repo, git_user, artifactory_user, artifactory_url>>

\* the step "Deployment Summary", if: success() (generate_workflow.sh:179-190)
WfSummary ==
    /\ wfPc = "summary"
    /\ wfPc' = "done"
    /\ UNCHANGED <<source, uiVars, genVars, errexit, LOB_KEY, TARGET_APP,
                   stepExit, valid, lob_name, reported, alternatives,
                   email_dl, git_repo, git_user, artifactory_user, artifactory_url>>

\* the step "Notify on Failure", if: failure() (generate_workflow.sh:192-198)
WfNotifyFailure ==
    /\ wfPc = "failed"
    /\ wfPc' = "notified"
    /\ UNCHANGED <<source, uiVars, genVars, errexit, LOB_KEY, TARGET_APP,
                   stepExit, valid, lob_name, reported, alternatives,
                   email_dl, git_repo, git_user, artifactory_user, artifactory_url>>

\* One run of the job on a dispatched pair (both inputs are required, so
\* neither is empty).  The step names no shell: the runner's default is
\* bash -e; both shells are followed.
InitWorkflow ==
    /\ source \in { JsonDoc(m) : m \in WorkflowManifests }
    /\ UiInit
    /\ GenOff
    /\ errexit \in BOOLEAN
    /\ LOB_KEY \in LobKeys
    /\ TARGET_APP \in AppIds
    /\ WfStart

NextWorkflow ==
    \/ WfValidate
    \/ WfExtract
    \/ WfDeploy
    \/ WfSummary
    \/ WfNotifyFailure

SpecWorkflow == InitWorkflow /\ [][NextWorkflow]_vars

----------------------------------------------------------------------------
(* Claims *)

\* the accessors the claims are stated with: the keys of SCXML_TARGET_APP_LISTS,
\* and the set of apps listed under a key (empty when the key is absent)
lobKeys(m) == IF Has(m, TargetListsKey) THEN DOMAIN m[TargetListsKey] ELSE {}

targetAppsOf(m, k) ==
    IF Has(m, TargetListsKey) /\ Has(m[TargetListsKey], k)
    THEN Range(m[TargetListsKey][k]) ELSE {}

InFlight == { calls[i].req : i \in DOMAIN calls }

\* C1: every dispatch POST sent by triggerWorkflow carries a target app that
\* is a member of targetApps(manifest, carried LOB key) of the loaded manifest.
C1_DispatchOnlyValidatedPair ==
    \A r \in InFlight :
        r.inputs.target_app \in targetAppsOf(jsonData.doc, r.inputs.lob)

\* C2: every change of the selected LOB, to another key or back to the empty
\* choice, leaves targetApp empty once the LOB-change effect has run.
C2_LobChangeResetsTargetApp ==
    [][lob' # lob => targetApp' = EmptyStr]_vars

\* C6: every dispatch request has ref "main" and inputs named exactly lob_key,
\* target_app, project_name, release_type and release_description.
C6_DispatchPayloadFields ==
    \A r \in InFlight :
        /\ r.ref = "main"
        /\ DOMAIN r.inputs = { "lob_key", "target_app", "project_name",
                               "release_type", "release_description" }

\* a step in which triggerWorkflow resumes after a POST with this outcome
Resumes(outcome) ==
    \E i \in DOMAIN calls :
        /\ calls[i].st = outcome
        /\ calls' = RemoveAt(calls, i)

Settled(outcome) == \E i \in DOMAIN calls : calls[i].st = outcome

\* C9: each submit sends exactly one POST and none is sent otherwise; once the
\* POST has resolved (rejected) the session reaches loading = FALSE with the
\* success (error) text as message; a failed dispatch changes neither lob,
\* targetApp nor the release metadata.
C9_DispatchOneShotSurfaced ==
    /\ [](posts = clicks)
    /\ Settled("resolved") ~> (~loading /\ message = SuccessText)
    /\ Settled("rejected") ~> (~loading /\ message = ErrorText)
    /\ [][Resumes("rejected") =>
            UNCHANGED <<lob, targetApp, projectName, releaseType,
                        releaseDescription>>]_vars

\* a failed dispatch of a chosen pair has been reported, after an earlier one
C9_Witness ==
    /\ ~loading
    /\ message = ErrorText
    /\ calls = << >>
    /\ posts = MaxClicks
    /\ lob # ""
    /\ targetApp # EmptyStr
    /\ projectName # ""

\* C10: at most one dispatch POST is in flight at any time, and loading is
\* TRUE for as long as one is.
C10_AtMostOneInFlight ==
    /\ Len(calls) <= 1
    /\ calls # << >> => loading

\* a second POST is pending after the first one completed
C10_Witness ==
    /\ Len(calls) = 1
    /\ calls[1].st = "awaiting"
    /\ clicks >= 2
    /\ message = ""

\* ---- the workflow's job

Validated == wfPc # "validate"

\* C3: the validation step sets valid=true exactly when the target app equals
\* some element of SCXML_TARGET_APP_LISTS[lob key].
C3_ValidIffExactMember ==
    Validated =>
        (valid = "true" <=> TARGET_APP \in targetAppsOf(Doc, LOB_KEY))

\* C4: for a target app outside targetApps(manifest, lob key) the step writes
\* its failure report listing exactly targetApps(manifest, lob key), which is
\* empty for an unknown LOB key, and ends non-zero.
C4_InvalidIsStructured ==
    (Validated /\ TARGET_APP \notin targetAppsOf(Doc, LOB_KEY)) =>
        /\ valid # "true"
        /\ reported
        /\ Range(alternatives) = targetAppsOf(Doc, LOB_KEY)
        /\ stepExit # 0

\* "first element of the named sequence, or the empty string if absent"
FirstOrEmptyString(section, field) ==
    IF /\ Has(Doc, section)
       /\ Has(Doc[section], field)
       /\ Doc[section][field] # << >>
    THEN Doc[section][field][1]
    ELSE ""

\* C5: on a Valid pair every resolved field is the first element of its
\* manifest sequence, or the empty string when that sequence is absent.
C5_ResolvedFieldsFirstOrEmpty ==
    wfPc \in {"deploy", "summary", "done"} =>
        /\ lob_name = FirstOrEmptyString(AppListsKey, LOB_KEY)
        /\ email_dl = FirstOrEmptyString(EmailKey, LOB_KEY \o "_teamEmailDL")
        /\ git_repo = FirstOrEmptyString(GitKey, "GIT_Repo")
        /\ git_user = FirstOrEmptyString(GitKey, "GIT_userName")
        /\ artifactory_user = FirstOrEmptyString(JfrogKey, "SCXML_artifactoryUserID")
        /\ artifactory_url =
               FirstOrEmptyString(JfrogKey, "SCXML_searchArtifactoryBaseURL")

\* ---- the generator

\* C7: the LOB options the generator writes are the keys of
\* SCXML_TARGET_APP_LISTS, the LOB keys the form offers for the same manifest.
C7_LobOptionsAreLobKeys ==
    (SingleDoc /\ genPc \in {"apps", "summary", "exited"}) =>
        /\ Range(lobOptions) = lobKeys(Doc)
        /\ load = "done" => Range(lobOptions) = lobList

\* C8: the generator exits 1 exactly when the manifest file is missing or not
\* well-formed JSON (not one JSON document), and 0 for every well-formed
\* manifest.
C8_ExitCodes ==
    genPc = "exited" =>
        /\ genExit = 1 <=> ~SingleDoc
        /\ SingleDoc => genExit = 0

============================================================================
